---- MODULE Spec2Model ----
(***************************************************************************)
(* Model of the coffee knowledge-graph RAG pipeline (tugas2/src):          *)
(* RAGEngine.query drives an LLM client (GeminiClient or OpenRouterClient) *)
(* and a Neo4jClient through generate -> validate -> execute -> format.    *)
(*                                                                         *)
(* Text is a sequence of tokens (strings); the empty text is << >>.        *)
(* Python's None is the one-token text None.                               *)
(***************************************************************************)
EXTENDS Integers, Sequences, FiniteSets, TLC

(***************************************************************************)
(* Bounds of the model.                                                    *)
(***************************************************************************)
\* longest raw backend text, in tokens
MaxLen == 2
\* most records a query execution returns
MaxRecords == 2

(***************************************************************************)
(* Text helpers.                                                           *)
(***************************************************************************)
None == <<"<None>">>

WS == " "

\* Python truthiness of an Optional[str]
Falsy(t) == t = None \/ t = <<>>

RECURSIVE LStrip(_)
LStrip(t) == IF t # <<>> /\ Head(t) = WS THEN LStrip(Tail(t)) ELSE t

RECURSIVE RStrip(_)
RStrip(t) ==
    IF t # <<>> /\ t[Len(t)] = WS THEN RStrip(SubSeq(t, 1, Len(t) - 1)) ELSE t

\* str.strip()
Strip(t) == RStrip(LStrip(t))

\* str.replace(tok, "")
Remove(t, tok) == SelectSeq(t, LAMBDA x : x # tok)

\* sep.join(parts), parts a sequence of texts
RECURSIVE Join(_, _)
Join(parts, sep) ==
    IF parts = <<>> THEN <<>>
    ELSE IF Len(parts) = 1 THEN parts[1]
    ELSE parts[1] \o sep \o Join(Tail(parts), sep)

\* text r occurs in text t as a contiguous run of tokens
Contains(t, r) ==
    \E i \in 1..(Len(t) - Len(r) + 1) : SubSeq(t, i, i + Len(r) - 1) = r

\* all token sequences over S of length at most n
SeqsUpTo(S, n) == UNION {[1..k -> S] : k \in 0..n}

(***************************************************************************)
(* Fixed texts of rag_engine.py.                                           *)
(***************************************************************************)
NotConnectedAnswer ==
    <<"Error: Not connected to database. Please ensure Neo4j is running.">>

NotConnectedError == <<"Database not connected">>

FailAnswer == <<"I'm not able to answer that right now.">>

GenerateFailedError == <<"Failed to generate Cypher query">>

NoResultsAnswer ==
    <<"I couldn't find any results for your question. The query returned no data.">>

InvalidCypherErrorDropsReason(error_msg) == <<"Invalid Cypher">>

\* f"Invalid Cypher: {error_msg}"
InvalidCypherError(error_msg) == <<"Invalid Cypher: ">> \o error_msg

\* the sentinel the Gemini prompt asks for on an out-of-domain question
OutOfScope == <<"OUT_OF_SCOPE">>

(***************************************************************************)
(* The language-model backends.  A backend call ends in one of:            *)
(*   kind "timeout", "transport", "malformed": the request raised;         *)
(*   kind "nochoice" a response with no candidate / no choices;            *)
(*   kind "text"     a response carrying text (None when the field is      *)
(*                   null).                                                *)
(***************************************************************************)
Providers == {"google", "openrouter"}

\* the markdown fence opening a cypher block (three backquotes + "cypher")
FenceCypher == "<fence>cypher"

\* the bare markdown fence (three backquotes)
Fence == "<fence>"

\* .replace(FenceCypher, "").replace(Fence, ""), as both clients clean a reply
RemoveFences(t) == Remove(Remove(t, FenceCypher), Fence)

\* the ways a backend request fails: it times out, the transport fails, or
\* the response does not have the expected shape
ErrorKinds == {"timeout", "transport", "malformed"}

\* what a client method gives its caller when an exception leaves it
Raised == <<"<raised>">>

\* the exception the request of GeminiClient._generate_text raises ("no":
\* none); a null response.text is falsy and raises nothing
GeminiClient_request_raises(resp) ==
    IF resp.kind \in ErrorKinds THEN "Exception" ELSE "no"

\* the except clause of GeminiClient._generate_text: except Exception
GeminiClient_catches(kind) == kind \in {"Exception"}

\* GeminiClient._generate_text
GeminiClient_generate_text(resp) ==
    LET x == GeminiClient_request_raises(resp)
    IN  IF x # "no" THEN (IF GeminiClient_catches(x) THEN None ELSE Raised)
        ELSE IF resp.kind = "text" /\ ~Falsy(resp.text) THEN Strip(resp.text)
        ELSE None

\* GeminiClient.generate_cypher
GeminiClient_generate_cypher(resp) ==
    LET cypher_query == GeminiClient_generate_text(resp)
    IN  IF cypher_query = Raised THEN Raised
        ELSE IF ~Falsy(cypher_query) THEN Strip(RemoveFences(cypher_query))
        ELSE None

\* the exception the try block of OpenRouterClient.generate_cypher raises
\* ("no": none): requests' Timeout, another RequestException, a KeyError on a
\* response of another shape, the AttributeError of .strip() on a null content
OpenRouterClient_request_raises(resp) ==
    CASE resp.kind = "timeout" -> "Timeout"
      [] resp.kind = "transport" -> "RequestException"
      [] resp.kind = "malformed" -> "KeyError"
      [] resp.kind = "text" /\ resp.text = None -> "AttributeError"
      [] OTHER -> "no"

OpenRouterClient_catches_named_only(kind) ==
    kind \in {"Timeout", "RequestException", "KeyError"}

\* the except clauses of OpenRouterClient.generate_cypher: Timeout,
\* RequestException, KeyError, then Exception
OpenRouterClient_catches(kind) ==
    kind \in {"Timeout", "RequestException", "KeyError", "AttributeError"}

\* OpenRouterClient.generate_cypher
OpenRouterClient_generate_cypher(resp) ==
    LET x == OpenRouterClient_request_raises(resp)
    IN  IF x # "no" THEN (IF OpenRouterClient_catches(x) THEN None ELSE Raised)
        ELSE IF resp.kind = "text" THEN Strip(RemoveFences(Strip(resp.text)))
        ELSE None

\* OpenRouterClient.chat
OpenRouterClient_chat(resp) == IF resp.kind = "text" THEN resp.text ELSE None

\* llm_client.generate_cypher, dispatched on the provider chosen at construction
generate_cypher(p, resp) ==
    IF p = "google" THEN GeminiClient_generate_cypher(resp) ELSE OpenRouterClient_generate_cypher(resp)

(***************************************************************************)
(* Result records.  A record is an ordered mapping, modelled as a sequence *)
(* of [f |-> field, v |-> value]; a value is a scalar, null, a mapping     *)
(* (node properties: code, optional name, optional description) or a       *)
(* store-native temporal value, which json.dumps cannot serialise.         *)
(***************************************************************************)
Absent == "<absent>"

Scalar(s) == [k |-> "scalar", s |-> s, name |-> Absent, desc |-> Absent]

Null == [k |-> "null", s |-> "None", name |-> Absent, desc |-> Absent]

Mapping(code, name, desc) == [k |-> "map", s |-> code, name |-> name, desc |-> desc]

Temporal(s) == [k |-> "temporal", s |-> s, name |-> Absent, desc |-> Absent]

Field(f, v) == [f |-> f, v |-> v]

\* str(value) of a mapping: Python's dict repr
StrMapping(v) ==
    <<"{", "'code': ", v.s>>
        \o (IF v.name # Absent THEN <<", ", "'name': ", v.name>> ELSE <<>>)
        \o (IF v.desc # Absent THEN <<", ", "'description': ", v.desc>> ELSE <<>>)
        \o <<"}">>

\* str(value), as an f-string renders it
StrValue(v) == IF v.k = "map" THEN StrMapping(v) ELSE <<v.s>>

\* str(record): Python's dict repr of the whole record
StrRecord(record) ==
    <<"{">>
        \o Join([i \in 1..Len(record) |->
                    <<"'", record[i].f, "': ">> \o StrValue(record[i].v)], <<", ">>)
        \o <<"}">>

format_record_part_shows_null(fld) ==
    IF fld.v.k = "map"
    THEN IF fld.v.name # Absent THEN <<fld.f, ": ", fld.v.name>>
         ELSE IF fld.v.desc # Absent THEN <<fld.f, ": ", fld.v.desc>>
         ELSE <<fld.f, ": ">> \o StrMapping(fld.v)
    ELSE <<fld.f, ": ">> \o StrValue(fld.v)

format_record_part_prefers_description(fld) ==
    IF fld.v.k = "map"
    THEN IF fld.v.desc # Absent THEN <<fld.f, ": ", fld.v.desc>>
         ELSE IF fld.v.name # Absent THEN <<fld.f, ": ", fld.v.name>>
         ELSE <<fld.f, ": ">> \o StrMapping(fld.v)
    ELSE IF fld.v.k # "null" THEN <<fld.f, ": ">> \o StrValue(fld.v)
    ELSE <<>>

\* the part _format_record appends for one field; << >> when it appends nothing
format_record_part(fld) ==
    IF fld.v.k = "map"
    THEN IF fld.v.name # Absent THEN <<fld.f, ": ", fld.v.name>>
         ELSE IF fld.v.desc # Absent THEN <<fld.f, ": ", fld.v.desc>>
         ELSE <<fld.f, ": ">> \o StrMapping(fld.v)
    ELSE IF fld.v.k # "null" THEN <<fld.f, ": ">> \o StrValue(fld.v)
    ELSE <<>>

\* the list parts built by the loop of _format_record
format_record_parts(record) ==
    SelectSeq([i \in 1..Len(record) |-> format_record_part(record[i])],
              LAMBDA p : p # <<>>)

format_record_no_fallback(record) == Join(format_record_parts(record), <<", ">>)

\* RAGEngine._format_record
format_record(record) ==
    IF format_record_parts(record) # <<>>
    THEN Join(format_record_parts(record), <<", ">>)
    ELSE StrRecord(record)

format_results_simple_no_single_value(results) ==
    IF results = <<>> THEN <<"No results found.">>
    ELSE Join([i \in 1..Len(results) |->
                 IF Len(results) > 1
                 THEN <<ToString(i), ". ">> \o format_record(results[i])
                 ELSE format_record(results[i])], <<"\n">>)

format_results_simple_unnumbered(results) ==
    IF results = <<>> THEN <<"No results found.">>
    ELSE IF Len(results) = 1 /\ Len(results[1]) = 1
    THEN <<"Result: ">> \o StrValue(results[1][1].v)
    ELSE Join([i \in 1..Len(results) |-> format_record(results[i])], <<"\n">>)

\* RAGEngine._format_results_simple
format_results_simple(results) ==
    IF results = <<>> THEN <<"No results found.">>
    ELSE IF Len(results) = 1 /\ Len(results[1]) = 1
    THEN <<"Result: ">> \o StrValue(results[1][1].v)
    ELSE Join([i \in 1..Len(results) |->
                 IF Len(results) > 1
                 THEN <<ToString(i), ". ">> \o format_record(results[i])
                 ELSE format_record(results[i])], <<"\n">>)

\* json.dumps(results, indent=2) raises TypeError on a store-native value
JsonSerializable(results) ==
    \A i \in 1..Len(results) : \A j \in 1..Len(results[i]) :
        results[i][j].v.k # "temporal"

(***************************************************************************)
(* What the collaborators can answer.                                      *)
(***************************************************************************)
Questions == {"What coffees are from Italy?", "Tell me about cars"}

GenTokens == {WS, FenceCypher, Fence, "OUT_OF_SCOPE", "MATCH (c:Coffee) RETURN c.name"}

FmtTokens == {WS, "Here is what I found."}

\* the outcomes of one backend call whose text is drawn from tokens toks
BackendResponses(toks) ==
    {[kind |-> k, text |-> None] : k \in ErrorKinds \cup {"nochoice"}}
        \cup {[kind |-> "text", text |-> t] : t \in SeqsUpTo(toks, MaxLen) \cup {None}}

\* the exception text of a generate_cypher that raises (a client other than
\* the two of this repository; query() catches it all the same)
GenerateRaised == <<"RuntimeError: backend unavailable">>

SyntaxErrorText == <<"CypherSyntaxError: Invalid input">>

TransportErrorText == <<"ServiceUnavailable: connection lost">>

\* the outcomes of session.run: it returns rows, or raises CypherSyntaxError
\* ("syntax") or another exception ("other")
SampleRecords ==
    { <<Field("name", Scalar("Espresso"))>>,
      <<Field("name", Scalar("Latte")), Field("vol", Scalar("240"))>>,
      <<Field("name", Null), Field("vol", Null)>>,
      <<Field("c", Mapping("latte", "Latte", Absent))>>,
      <<Field("c", Mapping("mocha", Absent, Absent)),
        Field("added", Temporal("2024-01-01"))>> }

ResultSets == SeqsUpTo(SampleRecords, MaxRecords)

RunOutcomes ==
    {[raised |-> "no", text |-> None, rows |-> r] : r \in ResultSets}
        \cup {[raised |-> "syntax", text |-> SyntaxErrorText, rows |-> <<>>],
              [raised |-> "other", text |-> TransportErrorText, rows |-> <<>>]}

\* the outcomes of session.run("EXPLAIN " + query): no rows are read; the
\* bare sentinel is not a Cypher statement, so the store never accepts it
ExplainOutcomes(query) ==
    {o \in RunOutcomes : o.rows = <<>> /\ (query = OutOfScope => o.raised # "no")}

(***************************************************************************)
(* Neo4jClient.  _driver is "none" (never created), "unverified" (created, *)
(* verify_connectivity raised), "live" or "closed".                        *)
(***************************************************************************)
\* Neo4jClient.connect: how GraphDatabase.driver / verify_connectivity end
ConnectOutcomes == {"driver_raises", "verify_raises", "ok"}

\* the value of self._driver after connect()
Neo4jClient_connect_driver(drv, how) ==
    CASE how = "driver_raises" -> drv
      [] how = "verify_raises" -> "unverified"
      [] OTHER -> "live"

Neo4jClient_connect_always_true(how) == TRUE

\* the value connect() returns
Neo4jClient_connect(how) == how = "ok"

\* Neo4jClient.close: the attribute keeps the closed driver object
Neo4jClient_close(drv) == IF drv # "none" THEN "closed" ELSE drv

\* the text of self._driver.session() when self._driver is None
NoDriverText == <<"AttributeError: 'NoneType' object has no attribute 'session'">>

\* what the body of validate_query's try block raises: nothing ("no"), or an
\* exception of class kind with the given text
explain_raises(drv, out) ==
    IF drv = "none" THEN [kind |-> "AttributeError", text |-> NoDriverText]
    ELSE IF out.raised = "syntax" THEN [kind |-> "CypherSyntaxError", text |-> out.text]
    ELSE IF out.raised = "other" THEN [kind |-> "Exception", text |-> out.text]
    ELSE [kind |-> "no", text |-> None]

validate_query_catches_syntax_only(kind) == kind = "CypherSyntaxError"

\* the except clauses of validate_query: CypherSyntaxError, then Exception
validate_query_catches(kind) ==
    kind \in {"CypherSyntaxError", "AttributeError", "Exception"}

\* Neo4jClient.validate_query -> [raised, ok, reason]; raised when the
\* exception of the try block met no except clause
validate_query(drv, out) ==
    LET x == explain_raises(drv, out)
    IN  IF x.kind = "no" THEN [raised |-> FALSE, ok |-> TRUE, reason |-> None]
        ELSE IF validate_query_catches(x.kind)
        THEN [raised |-> FALSE, ok |-> FALSE, reason |-> x.text]
        ELSE [raised |-> TRUE, ok |-> FALSE, reason |-> x.text]

\* the text of the ConnectionError of execute_query
NotConnectedText == <<"Not connected to Neo4j. Call connect() first.">>

\* Neo4jClient.execute_query -> [raised, error, rows]; raised is "no",
\* "ValueError" or "Exception"
execute_query(drv, out) ==
    IF drv = "none"
    THEN [raised |-> "Exception", error |-> NotConnectedText, rows |-> <<>>]
    ELSE IF out.raised = "syntax"
    THEN [raised |-> "ValueError",
          error |-> <<"Invalid Cypher query: ">> \o out.text, rows |-> <<>>]
    ELSE IF out.raised = "other"
    THEN [raised |-> "Exception", error |-> out.text, rows |-> <<>>]
    ELSE [raised |-> "no", error |-> None, rows |-> out.rows]

\* llm_client.format_results -> [raised, error, text]: json.dumps runs
\* outside every try, then the backend is called
format_results(p, results, resp) ==
    IF ~JsonSerializable(results)
    THEN [raised |-> TRUE,
          error |-> <<"TypeError: Object of type Date is not JSON serializable">>,
          text |-> None]
    ELSE [raised |-> FALSE, error |-> None,
          text |-> IF p = "google" THEN GeminiClient_generate_text(resp)
                   ELSE OpenRouterClient_chat(resp)]

(***************************************************************************)
(* RAGEngine.  One invocation of query() is the walk                       *)
(*   idle/done -> generate -> validate -> execute -> format -> done,       *)
(* one step per call to a collaborator; calls is the log of the calls the  *)
(* invocation has made so far, in order.                                   *)
(***************************************************************************)
VARIABLES
    provider,       \* Config.MODEL_PROVIDER, which fixed self.llm_client
    driver,         \* self.neo4j_client._driver
    connected,      \* self.connected
    pc,             \* where the invocation of query() stands
    question,       \* user_question
    cypher_query,   \* the local cypher_query (None while unbound)
    results,        \* the local results
    calls,          \* the collaborator calls of this invocation
    outcome,        \* the dictionary query() returned (read when pc = "done")
    replay,         \* the earlier invocation being run again, if any
    web             \* the Flask process of app.py and one browser session

vars == <<provider, driver, connected, pc, question, cypher_query, results,
          calls, outcome, replay, web>>

NoneRows == [some |-> FALSE, rows |-> <<>>]

Rows(r) == [some |-> TRUE, rows |-> r]

\* one logged call: op names the collaborator method, arg its text argument,
\* ok whether it returned (validate: whether it returned valid), text what it
\* returned or the text of what it raised, rows the records passed or
\* returned, kind how the backend request behind an LLM call ended
Call(op, arg, ok, text, rows, kind) ==
    [op |-> op, arg |-> arg, ok |-> ok, text |-> text, rows |-> rows, kind |-> kind]

NoOutcome ==
    [question |-> "", cypher |-> None, results |-> NoneRows, answer |-> None,
     success |-> FALSE, error |-> None]

\* the dictionary returned while self.connected is false
NotConnectedOutcome(q) ==
    [question |-> q, cypher |-> None, results |-> NoneRows,
     answer |-> NotConnectedAnswer, success |-> FALSE, error |-> NotConnectedError]

\* the dictionary returned when generate_cypher gave nothing
GenerateFailedOutcome(q) ==
    [question |-> q, cypher |-> None, results |-> NoneRows,
     answer |-> FailAnswer, success |-> FALSE, error |-> GenerateFailedError]

\* the dictionary returned when validate_query rejected the candidate
InvalidOutcome(q, cy, error_msg) ==
    [question |-> q, cypher |-> cy, results |-> NoneRows,
     answer |-> FailAnswer, success |-> FALSE, error |-> InvalidCypherError(error_msg)]

ExceptionOutcomeKeepsResults(q, cy, e) ==
    [question |-> q, cypher |-> cy, results |-> results,
     answer |-> FailAnswer, success |-> FALSE, error |-> e]

\* the dictionary both except clauses return; e is str(e)
ExceptionOutcome(q, cy, e) ==
    [question |-> q, cypher |-> cy, results |-> NoneRows,
     answer |-> FailAnswer, success |-> FALSE, error |-> e]

\* the dictionary returned at the end of the try block
SuccessOutcome(q, cy, rows, answer) ==
    [question |-> q, cypher |-> cy, results |-> Rows(rows),
     answer |-> answer, success |-> TRUE, error |-> None]

\* the negation of "if not cypher_query"
CandidateUsable(cy) == ~Falsy(cy)

ValidationIgnored(v) == TRUE

\* the negation of "if not is_valid"
ValidationPassed(v) == v.ok

ResultsNeverEmpty(rows) == FALSE

\* "if not results"
ResultsEmpty(rows) == rows = <<>>

AnswerWithoutFallback(answer, rows) == answer

\* answer = format_results(...); if not answer: answer = _format_results_simple(results)
AnswerOrFallback(answer, rows) ==
    IF Falsy(answer) THEN format_results_simple(rows) ELSE answer

AfterExecuteRaisedRetry == "generate"

\* an exception of execute_query leaves the try block for an except clause,
\* which returns
AfterExecuteRaised == "done"

CatchesOnlyValueError(kind) == kind = "ValueError"

\* the except clauses of query(): "except ValueError" and "except Exception"
Catches(kind) == kind \in {"ValueError", "Exception"}

\* nothing is being replayed
NoReplay == [on |-> FALSE, question |-> "", calls |-> <<>>, outcome |-> NoOutcome]

(***************************************************************************)
(* app.py.  web holds the session's history (an absent key reads as the    *)
(* empty list), the module global rag_engine (0 for None, else the number  *)
(* of the instance), the instances constructed and those connect() was     *)
(* called on, and, for each request handler inside get_rag_engine, where   *)
(* it stands and the instance it returned.  clock counts the appended      *)
(* entries and stands for datetime.now(); the answer kept in an entry is   *)
(* carried along unread and is left out.                                   *)
(***************************************************************************)
MaxRequests == 22

MaxHandlers == 3

\* "Keep only last 20 queries"
HistoryLimit == 20

Handlers == 1..MaxHandlers

FreshProcess ==
    [history |-> <<>>, clock |-> 0, request |-> "", status |-> 0, invoked |-> FALSE,
     rag_engine |-> 0, created |-> 0, connects |-> {},
     hpc |-> [h \in Handlers |-> "start"], got |-> [h \in Handlers |-> 0]]

\* session["history"][-20:]
LastEntries(h, n) == IF Len(h) > n THEN SubSeq(h, Len(h) - n + 1, Len(h)) ELSE h

Init ==
    /\ provider \in Providers
    /\ driver = "none"
    /\ connected = FALSE
    /\ pc = "idle"
    /\ question = ""
    /\ cypher_query = None
    /\ results = NoneRows
    /\ calls = <<>>
    /\ outcome = NoOutcome
    /\ replay = NoReplay
    /\ web = FreshProcess

\* no invocation of query() is under way: the last one returned ("done") or
\* let an exception through to its caller ("propagated") and nothing was
\* called since, or none was made since the engine was last (dis)connected
Idle == pc \in {"idle", "done", "propagated"} /\ ~replay.on

\* what a call of another method leaves of the last invocation of query():
\* its locals are gone and its return value is no longer looked at; the log
\* holds that call alone
Forget(call) ==
    /\ pc' = "idle"
    /\ question' = ""
    /\ cypher_query' = None
    /\ results' = NoneRows
    /\ calls' = <<call>>
    /\ outcome' = NoOutcome

\* RAGEngine.connect
Connect ==
    /\ Idle
    /\ \E how \in ConnectOutcomes :
        /\ driver' = Neo4jClient_connect_driver(driver, how)
        /\ connected' = Neo4jClient_connect(how)
        /\ Forget(Call("connect", <<>>, Neo4jClient_connect(how), None, <<>>, how))
    /\ UNCHANGED <<provider, replay, web>>

\* RAGEngine.disconnect
Disconnect ==
    /\ Idle
    /\ driver' = Neo4jClient_close(driver)
    /\ connected' = FALSE
    /\ Forget(Call("disconnect", <<>>, TRUE, None, <<>>, ""))
    /\ UNCHANGED <<provider, replay, web>>

\* RAGEngine.query, entry, for question q: fresh locals, the connected check
QueryEntry(q) ==
    /\ question' = q
    /\ IF ~connected
       THEN pc' = "done" /\ outcome' = NotConnectedOutcome(q)
       ELSE pc' = "generate" /\ outcome' = NoOutcome
    /\ cypher_query' = None
    /\ results' = NoneRows
    /\ calls' = <<>>
    /\ UNCHANGED <<provider, driver, connected>>

\* RAGEngine.query, entry
Query ==
    /\ Idle
    /\ \E q \in Questions : QueryEntry(q)
    /\ UNCHANGED <<replay, web>>

\* an exception of class kind with text e leaves the try block: a matching
\* except clause returns the failure dictionary, else the caller gets it
Raise(kind, e, next) ==
    IF Catches(kind)
    THEN pc' = next /\ outcome' = ExceptionOutcome(question, cypher_query, e)
    ELSE pc' = "propagated" /\ outcome' = NoOutcome

\* step 1 when generate_cypher returned cy
GenerateReturned(cy, kind) ==
    /\ calls' = Append(calls, Call("generate", <<question>>, TRUE, cy, <<>>, kind))
    /\ cypher_query' = cy
    /\ IF CandidateUsable(cy)
       THEN pc' = "validate" /\ UNCHANGED outcome
       ELSE pc' = "done" /\ outcome' = GenerateFailedOutcome(question)
    /\ UNCHANGED <<provider, driver, connected, question, results>>

\* step 1 when generate_cypher raised an exception with text e
GenerateRaisedStep(e) ==
    /\ calls' = Append(calls, Call("generate", <<question>>, FALSE, e, <<>>, "raise"))
    /\ Raise("Exception", e, "done")
    /\ UNCHANGED <<provider, driver, connected, question, cypher_query, results>>

\* step 2 when validate_query ended as v
ValidateEnded(v) ==
    /\ calls' = Append(calls,
                  Call("validate", cypher_query, v.ok, v.reason, <<>>,
                       IF v.raised THEN "raise" ELSE ""))
    /\ IF v.raised
       THEN Raise("Exception", v.reason, "done")
       ELSE IF ValidationPassed(v)
       THEN pc' = "execute" /\ UNCHANGED outcome
       ELSE /\ pc' = "done"
            /\ outcome' = InvalidOutcome(question, cypher_query, v.reason)
    /\ UNCHANGED <<provider, driver, connected, question, cypher_query, results>>

ExecuteEndedDropsConnection(e) ==
    /\ calls' = Append(calls,
                  Call("execute", cypher_query, e.raised = "no", e.error, e.rows,
                       e.raised))
    /\ IF e.raised # "no"
       THEN /\ Raise(e.raised, e.error, AfterExecuteRaised)
            /\ connected' = FALSE
            /\ UNCHANGED results
       ELSE /\ results' = Rows(e.rows)
            /\ UNCHANGED connected
            /\ IF ResultsEmpty(e.rows)
               THEN /\ pc' = "done"
                    /\ outcome' = SuccessOutcome(question, cypher_query, e.rows,
                                                 NoResultsAnswer)
               ELSE pc' = "format" /\ UNCHANGED outcome
    /\ UNCHANGED <<provider, driver, question, cypher_query>>

\* step 3 when execute_query ended as e
ExecuteEnded(e) ==
    /\ calls' = Append(calls,
                  Call("execute", cypher_query, e.raised = "no", e.error, e.rows,
                       e.raised))
    /\ IF e.raised # "no"
       THEN Raise(e.raised, e.error, AfterExecuteRaised) /\ UNCHANGED results
       ELSE /\ results' = Rows(e.rows)
            /\ IF ResultsEmpty(e.rows)
               THEN /\ pc' = "done"
                    /\ outcome' = SuccessOutcome(question, cypher_query, e.rows,
                                                 NoResultsAnswer)
               ELSE pc' = "format" /\ UNCHANGED outcome
    /\ UNCHANGED <<provider, driver, connected, question, cypher_query>>

\* step 4 when format_results ended as f, its backend request as kind
FormatEnded(f, kind) ==
    LET fmt == Call("format", <<question>>, ~f.raised,
                    IF f.raised THEN f.error ELSE f.text, results.rows,
                    IF f.raised THEN "" ELSE kind)
        answer == AnswerOrFallback(f.text, results.rows)
    IN  /\ IF f.raised
           THEN /\ calls' = Append(calls, fmt)
                /\ Raise("Exception", f.error, "done")
           ELSE /\ calls' = IF Falsy(f.text)
                            THEN calls \o <<fmt, Call("fallback", <<question>>, TRUE,
                                                      format_results_simple(results.rows),
                                                      results.rows, "")>>
                            ELSE Append(calls, fmt)
                /\ outcome' = SuccessOutcome(question, cypher_query, results.rows, answer)
                /\ pc' = "done"
        /\ UNCHANGED <<provider, driver, connected, question, cypher_query, results>>

\* RAGEngine.query, step 1: self.llm_client.generate_cypher(user_question)
Generate ==
    /\ pc = "generate"
    /\ ~replay.on
    /\ \/ \E resp \in BackendResponses(GenTokens) :
            LET cy == generate_cypher(provider, resp)
            IN  IF cy = Raised
                THEN GenerateRaisedStep(<<"AttributeError: 'NoneType' object has no attribute 'strip'">>)
                ELSE GenerateReturned(cy, resp.kind)
       \/ GenerateRaisedStep(GenerateRaised)
    /\ UNCHANGED <<replay, web>>

\* RAGEngine.query, step 2: self.neo4j_client.validate_query(cypher_query)
Validate ==
    /\ pc = "validate"
    /\ ~replay.on
    /\ \E out \in ExplainOutcomes(cypher_query) :
        ValidateEnded(validate_query(driver, out))
    /\ UNCHANGED <<replay, web>>

\* RAGEngine.query, step 3: self.neo4j_client.execute_query(cypher_query)
Execute ==
    /\ pc = "execute"
    /\ ~replay.on
    /\ \E out \in RunOutcomes : ExecuteEnded(execute_query(driver, out))
    /\ UNCHANGED <<replay, web>>

\* RAGEngine.query, step 4: self.llm_client.format_results(user_question, results)
\* and, on an empty answer, self._format_results_simple(results)
Format ==
    /\ pc = "format"
    /\ ~replay.on
    /\ \E resp \in BackendResponses(FmtTokens) :
        FormatEnded(format_results(provider, results.rows, resp), resp.kind)
    /\ UNCHANGED <<replay, web>>

Next == Connect \/ Disconnect \/ Query \/ Generate \/ Validate \/ Execute \/ Format

Spec == Init /\ [][Next]_vars

(***************************************************************************)
(* Running an invocation again.  Once query() has returned, the same       *)
(* question is asked again on the same engine, with no connect() or        *)
(* disconnect() in between, and every collaborator call of the second run  *)
(* is given what the call at the same position of the first run gave;      *)
(* replay keeps the first run's question, call log and outcome.            *)
(***************************************************************************)
\* the call of the first run the second run is about to repeat
NextReplayed == replay.calls[Len(calls) + 1]

\* the second run is at a call of method op that the first run made too
Replaying(op) ==
    /\ replay.on
    /\ pc = op
    /\ Len(calls) < Len(replay.calls)
    /\ NextReplayed.op = op

StartReplay ==
    /\ pc = "done"
    /\ ~replay.on
    /\ replay' = [on |-> TRUE, question |-> question, calls |-> calls,
                  outcome |-> outcome]
    /\ QueryEntry(question)
    /\ UNCHANGED web

ReplayGenerate ==
    /\ Replaying("generate")
    /\ IF NextReplayed.ok
       THEN GenerateReturned(NextReplayed.text, NextReplayed.kind)
       ELSE GenerateRaisedStep(NextReplayed.text)
    /\ UNCHANGED <<replay, web>>

ReplayValidate ==
    /\ Replaying("validate")
    /\ ValidateEnded([raised |-> NextReplayed.kind = "raise", ok |-> NextReplayed.ok,
                      reason |-> NextReplayed.text])
    /\ UNCHANGED <<replay, web>>

ReplayExecute ==
    /\ Replaying("execute")
    /\ ExecuteEnded([raised |-> NextReplayed.kind, error |-> NextReplayed.text,
                     rows |-> NextReplayed.rows])
    /\ UNCHANGED <<replay, web>>

ReplayFormat ==
    /\ Replaying("format")
    /\ FormatEnded([raised |-> ~NextReplayed.ok,
                    error |-> IF NextReplayed.ok THEN None ELSE NextReplayed.text,
                    text |-> IF NextReplayed.ok THEN NextReplayed.text ELSE None],
                   NextReplayed.kind)
    /\ UNCHANGED <<replay, web>>

NextDet ==
    \/ Connect \/ Disconnect \/ Query \/ Generate \/ Validate \/ Execute \/ Format
    \/ StartReplay \/ ReplayGenerate \/ ReplayValidate \/ ReplayExecute
    \/ ReplayFormat

SpecDet == Init /\ [][NextDet]_vars

(***************************************************************************)
(* Neo4jClient used on its own: connect, close, validate_query and         *)
(* execute_query called in any order on one client object.  calls holds    *)
(* the last operation alone, its kind how the store side of it ended, and  *)
(* pc is "propagated" when the operation raised to its caller.             *)
(***************************************************************************)
SampleQueries == {OutOfScope, <<"MATCH (c:Coffee) RETURN c.name">>}

\* how the store side of a call ended: no session could be opened on a
\* missing driver, else as session.run ended
StoreEnd(drv, out) == IF drv = "none" THEN "nodriver" ELSE out.raised

ClientConnect ==
    /\ \E how \in ConnectOutcomes :
        /\ driver' = Neo4jClient_connect_driver(driver, how)
        /\ calls' = <<Call("connect", <<>>, Neo4jClient_connect(how), None, <<>>, how)>>
    /\ pc' = "idle"
    /\ UNCHANGED <<provider, connected, question, cypher_query, results, outcome, replay, web>>

ClientClose ==
    /\ driver' = Neo4jClient_close(driver)
    /\ calls' = <<Call("close", <<>>, TRUE, None, <<>>, "")>>
    /\ pc' = "idle"
    /\ UNCHANGED <<provider, connected, question, cypher_query, results, outcome, replay, web>>

ClientValidate ==
    /\ \E query \in SampleQueries : \E out \in ExplainOutcomes(query) :
        LET v == validate_query(driver, out)
        IN  /\ calls' = <<Call("validate", query, v.ok, v.reason, <<>>,
                               StoreEnd(driver, out))>>
            /\ pc' = IF v.raised THEN "propagated" ELSE "idle"
    /\ UNCHANGED <<provider, driver, connected, question, cypher_query, results,
                   outcome, replay, web>>

ClientExecute ==
    /\ \E query \in SampleQueries :
       \E out \in {o \in RunOutcomes : query = OutOfScope => o.raised # "no"} :
        LET e == execute_query(driver, out)
        IN  /\ calls' = <<Call("execute", query, e.raised = "no", e.error, e.rows,
                               StoreEnd(driver, out))>>
            /\ pc' = IF e.raised # "no" THEN "propagated" ELSE "idle"
    /\ UNCHANGED <<provider, driver, connected, question, cypher_query, results,
                   outcome, replay, web>>

NextClient == ClientConnect \/ ClientClose \/ ClientValidate \/ ClientExecute

SpecClient == Init /\ [][NextClient]_vars

(***************************************************************************)
(* The pure functions on their own: generate_cypher of either backend on   *)
(* one backend response, _format_results_simple on one list of records,    *)
(* _format_record on one record.  Each behaviour applies one function to   *)
(* one input; calls holds that application (arg and rows the input, text   *)
(* the value returned), pc is "propagated" when it raised.                 *)
(***************************************************************************)
\* the values a field can hold: a scalar, null, node properties with and
\* without name and description, a store-native temporal value
SampleValues ==
    { Scalar("Espresso"), Null,
      Mapping("latte", "Latte", Absent),
      Mapping("latte", "Latte", "Espresso with steamed milk"),
      Mapping("mocha", Absent, "Espresso with chocolate"),
      Mapping("mocha", Absent, Absent),
      Temporal("2024-01-01") }

FieldNames == {"name", "c"}

\* records of one field, and records of two fields whose first is a scalar
\* or null
RenderRecords ==
    {<<Field(f, v)>> : f \in FieldNames, v \in SampleValues}
        \cup {<<Field("name", v), Field("c", w)>> :
                v \in {Scalar("Espresso"), Null}, w \in SampleValues}

ApplyGenerateCypher ==
    /\ calls = <<>>
    /\ \E resp \in BackendResponses(GenTokens) :
        LET cy == generate_cypher(provider, resp)
        IN  /\ calls' = <<Call("generate_cypher", resp.text, cy # Raised, cy, <<>>,
                               resp.kind)>>
            /\ pc' = IF cy = Raised THEN "propagated" ELSE "idle"
    /\ UNCHANGED <<provider, driver, connected, question, cypher_query, results,
                   outcome, replay, web>>

ApplyFormatResultsSimple ==
    /\ calls = <<>>
    /\ \E rs \in SeqsUpTo(RenderRecords, MaxRecords) :
        calls' = <<Call("_format_results_simple", <<>>, TRUE,
                        format_results_simple(rs), rs, "")>>
    /\ UNCHANGED <<provider, driver, connected, pc, question, cypher_query, results,
                   outcome, replay, web>>

ApplyFormatRecord ==
    /\ calls = <<>>
    /\ \E record \in RenderRecords :
        calls' = <<Call("_format_record", <<>>, TRUE, format_record(record),
                        <<record>>, "")>>
    /\ UNCHANGED <<provider, driver, connected, pc, question, cypher_query, results,
                   outcome, replay, web>>

NextPure == ApplyGenerateCypher \/ ApplyFormatResultsSimple \/ ApplyFormatRecord

SpecPure == Init /\ [][NextPure]_vars

(***************************************************************************)
(* The routes /query, /history and /clear-history of app.py, requested one *)
(* after the other in one session.  request and status are the route and   *)
(* the status of the last response, invoked whether its handler called     *)
(* rag.query.                                                              *)
(***************************************************************************)
\* the bodies of a POST /query: no JSON object at all, or one whose question
\* is empty, blank, or a question with whitespace around it
RequestBodies ==
    {[json |-> FALSE, question |-> <<>>]}
        \cup {[json |-> TRUE, question |-> q] :
                q \in {<<>>, <<WS>>, <<WS, "What coffees are from Italy?", WS>>}}

trim_history_keeps_all(h) == h

\* if len(session["history"]) > 20: session["history"] = session["history"][-20:]
trim_history(h) == LastEntries(h, HistoryLimit)

\* the response of a handler that changed nothing else
Respond(route, status) ==
    /\ web' = [web EXCEPT !.request = route, !.status = status, !.invoked = FALSE]
    /\ UNCHANGED <<driver, connected>>

\* POST /query
QueryRequest ==
    /\ web.clock < MaxRequests
    /\ \E body \in RequestBodies, constructs \in BOOLEAN, how \in ConnectOutcomes :
        LET user_question == Strip(body.question)
            fresh == web.rag_engine = 0
        IN  IF ~body.json THEN Respond("query", 500)
            ELSE IF Falsy(user_question) THEN Respond("query", 400)
            ELSE IF fresh /\ ~constructs THEN Respond("query", 500)
            ELSE /\ web' = [web EXCEPT
                     !.rag_engine = IF fresh THEN web.created + 1 ELSE @,
                     !.created = IF fresh THEN @ + 1 ELSE @,
                     !.connects = IF fresh THEN @ \cup {web.created + 1} ELSE @,
                     !.invoked = TRUE,
                     !.history = trim_history(Append(@,
                                    [question |-> user_question,
                                     timestamp |-> web.clock + 1])),
                     !.clock = @ + 1,
                     !.request = "query",
                     !.status = 200]
                 /\ IF fresh
                    THEN /\ driver' = Neo4jClient_connect_driver(driver, how)
                         /\ connected' = Neo4jClient_connect(how)
                    ELSE UNCHANGED <<driver, connected>>
    /\ UNCHANGED <<provider, pc, question, cypher_query, results, calls, outcome, replay>>

\* GET /history
HistoryRequest ==
    /\ Respond("history", 200)
    /\ UNCHANGED <<provider, pc, question, cypher_query, results, calls, outcome, replay>>

\* POST /clear-history
ClearHistoryRequest ==
    /\ web' = [web EXCEPT !.history = <<>>, !.request = "clear-history",
                          !.status = 200, !.invoked = FALSE]
    /\ UNCHANGED <<provider, driver, connected, pc, question, cypher_query, results,
                   calls, outcome, replay>>

NextWeb == QueryRequest \/ HistoryRequest \/ ClearHistoryRequest

SpecWeb == Init /\ [][NextWeb]_vars

(***************************************************************************)
(* get_rag_engine called by request handlers running in threads of one     *)
(* process (Flask serves each request in its own thread).  The function    *)
(* takes no lock, and a thread can be suspended between any two of its     *)
(* statements, each of which reads the global rag_engine anew:             *)
(*   start   -> if rag_engine is None                                      *)
(*   create  -> rag_engine = RAGEngine()                                   *)
(*   connect -> rag_engine.connect()                                       *)
(*   return  -> return rag_engine                                          *)
(* Which instances exist and had connect() called is followed, not the     *)
(* connection state of each.                                               *)
(***************************************************************************)
HandlerAt(h, where) == web.hpc[h] = where

GetCheck(h) ==
    /\ HandlerAt(h, "start")
    /\ web' = [web EXCEPT !.hpc[h] = IF web.rag_engine = 0 THEN "create" ELSE "return"]
    /\ UNCHANGED <<provider, driver, connected, pc, question, cypher_query, results,
                   calls, outcome, replay>>

\* RAGEngine() raises when the configured provider cannot be built
GetCreate(h) ==
    /\ HandlerAt(h, "create")
    /\ \E constructs \in BOOLEAN :
        web' = IF constructs
               THEN [web EXCEPT !.created = @ + 1, !.rag_engine = web.created + 1,
                                !.hpc[h] = "connect"]
               ELSE [web EXCEPT !.hpc[h] = "raised"]
    /\ UNCHANGED <<provider, driver, connected, pc, question, cypher_query, results,
                   calls, outcome, replay>>

GetConnect(h) ==
    /\ HandlerAt(h, "connect")
    /\ web' = [web EXCEPT !.connects = @ \cup {web.rag_engine}, !.hpc[h] = "return"]
    /\ UNCHANGED <<provider, driver, connected, pc, question, cypher_query, results,
                   calls, outcome, replay>>

GetReturn(h) ==
    /\ HandlerAt(h, "return")
    /\ web' = [web EXCEPT !.got[h] = web.rag_engine, !.hpc[h] = "done"]
    /\ UNCHANGED <<provider, driver, connected, pc, question, cypher_query, results,
                   calls, outcome, replay>>

NextRace ==
    \E h \in Handlers : GetCheck(h) \/ GetCreate(h) \/ GetConnect(h) \/ GetReturn(h)

SpecRace == Init /\ [][NextRace]_vars

(***************************************************************************)
(* Reading the call log.                                                   *)
(***************************************************************************)
CallsOf(op) == SelectSeq(calls, LAMBDA c : c.op = op)

NumCalls(op) == Len(CallsOf(op))

\* the number of translation attempts made up to and including call i
AttemptAt(i) == Len(SelectSeq(SubSeq(calls, 1, i), LAMBDA c : c.op = "generate"))

\* the invocation has returned
Returned == pc = "done"

\* some candidate was accepted by the validator in this invocation
SomeAccepted == \E i \in 1..Len(calls) : calls[i].op = "validate" /\ calls[i].ok

\* a translation attempt that produced no query
NoQuery(c) == c.op = "generate" /\ (~c.ok \/ Falsy(c.text))

\* a candidate the validator rejected
Rejected(c) == c.op = "validate" /\ ~c.ok

(***************************************************************************)
(* C1.  One invocation of query() makes at most 3 translation attempts,    *)
(* and an invocation that ends in failure with no candidate ever accepted  *)
(* (each attempt returned nothing or was rejected) has made exactly 3.     *)
(* query() has no retry loop: it returns after its single attempt.         *)
(***************************************************************************)
C1_RetryBudget ==
    Returned =>
        /\ NumCalls("generate") <= 3
        /\ (/\ calls # <<>>
            /\ ~outcome.success
            /\ ~SomeAccepted
            /\ \A i \in 1..Len(calls) : NoQuery(calls[i]) \/ Rejected(calls[i]))
           => NumCalls("generate") = 3

(***************************************************************************)
(* C2.  When the first translation attempt returns exactly the             *)
(* out-of-scope sentinel, the validator and the executor are never called  *)
(* in that invocation, and the answer returned is the fixed refusal text   *)
(* with no results.  query() does not look at the sentinel: it hands it to *)
(* validate_query like any other candidate.                                *)
(***************************************************************************)
C2_OutOfScopeShortCircuit ==
    (/\ calls # <<>>
     /\ calls[1].op = "generate"
     /\ calls[1].ok
     /\ calls[1].text = OutOfScope)
    => /\ NumCalls("validate") = 0
       /\ NumCalls("execute") = 0
       /\ Returned => outcome.answer = FailAnswer /\ outcome.results = NoneRows

(***************************************************************************)
(* C3.  When the validator rejects the candidate of attempt n < 3 with     *)
(* reason r, the invocation makes attempt n+1 and the translator's input   *)
(* on attempt n+1 contains r.  query() returns on the first rejection.     *)
(***************************************************************************)
C3_RejectionFeedsNextAttempt ==
    Returned =>
        \A i \in 1..Len(calls) :
            (Rejected(calls[i]) /\ AttemptAt(i) < 3)
            => \E j \in (i + 1)..Len(calls) :
                /\ calls[j].op = "generate"
                /\ AttemptAt(j) = AttemptAt(i) + 1
                /\ Contains(calls[j].arg, calls[i].text)

(***************************************************************************)
(* C4.  An outcome with success = true carries a non-empty answer and a    *)
(* cypher field equal to a candidate the validator accepted in the same    *)
(* invocation, also when the formatter returned nothing.                   *)
(***************************************************************************)
C4_SuccessCarriesAnswerAndValidatedQuery ==
    (Returned /\ outcome.success) =>
        /\ ~Falsy(outcome.answer)
        /\ \E i \in 1..Len(calls) :
            /\ calls[i].op = "validate"
            /\ calls[i].ok
            /\ calls[i].arg = outcome.cypher

\* a successful outcome whose answer the fallback renderer made of a record
\* with no printable field
C4_Witness ==
    /\ Returned
    /\ outcome.success
    /\ NumCalls("fallback") = 1
    /\ \E i \in 1..Len(outcome.results.rows) :
        format_record_parts(outcome.results.rows[i]) = <<>>

(***************************************************************************)
(* C5.  An outcome with success = false has results = None, on every       *)
(* failure path.                                                           *)
(***************************************************************************)
C5_FailureHasNoResults ==
    (Returned /\ ~outcome.success) => outcome.results = NoneRows

\* a failure after the executor had returned records: the formatter raised
C5_Witness ==
    /\ Returned
    /\ ~outcome.success
    /\ results.some
    /\ calls[Len(calls)].op = "format"
    /\ ~calls[Len(calls)].ok

(***************************************************************************)
(* C6.  The executor is called only after the validator accepted a         *)
(* candidate in the same invocation, with exactly that candidate, and      *)
(* never after a generation failure or a rejection.                        *)
(***************************************************************************)
C6_ExecuteOnlyValidated ==
    \A i \in 1..Len(calls) :
        calls[i].op = "execute" =>
            /\ \E j \in 1..(i - 1) :
                /\ calls[j].op = "validate"
                /\ calls[j].ok
                /\ calls[j].arg = calls[i].arg
            /\ \A j \in 1..(i - 1) : ~NoQuery(calls[j]) /\ ~Rejected(calls[j])

C6_Witness == NumCalls("execute") = 1 /\ NumCalls("validate") = 1

(***************************************************************************)
(* C7.  An invocation that ends with no candidate accepted executes        *)
(* nothing, and its error field carries the error of the last attempt:     *)
(* the validator's reason after a rejection, the generation-failure        *)
(* description after an attempt that produced no query.                    *)
(***************************************************************************)
C7_ExhaustedCarriesLastError ==
    (Returned /\ calls # <<>> /\ ~SomeAccepted) =>
        LET last == calls[Len(calls)]
        IN  /\ NumCalls("execute") = 0
            /\ ~outcome.success
            /\ Rejected(last) => Contains(outcome.error, last.text)
            /\ (last.op = "generate" /\ last.ok) => outcome.error = GenerateFailedError
            /\ (last.op = "generate" /\ ~last.ok) => outcome.error = last.text

\* the invocation ended on a rejection
C7_Witness ==
    /\ Returned
    /\ calls # <<>>
    /\ Rejected(calls[Len(calls)])
    /\ calls[Len(calls)].text = SyntaxErrorText

(***************************************************************************)
(* C8.  When the executor returns no records, neither the formatter nor    *)
(* the fallback renderer is called, the answer is the fixed "no results"   *)
(* message, and the outcome is success = true with error = None.           *)
(***************************************************************************)
C8_EmptyResultsSkipFormatter ==
    (\E i \in 1..Len(calls) :
        calls[i].op = "execute" /\ calls[i].ok /\ calls[i].rows = <<>>)
    => /\ NumCalls("format") = 0
       /\ NumCalls("fallback") = 0
       /\ Returned
       /\ outcome.answer = NoResultsAnswer
       /\ outcome.success
       /\ outcome.error = None
       /\ outcome.results = Rows(<<>>)

C8_Witness ==
    /\ Returned
    /\ calls # <<>>
    /\ calls[Len(calls)].op = "execute"
    /\ calls[Len(calls)].ok
    /\ calls[Len(calls)].rows = <<>>

(***************************************************************************)
(* C9.  When the executor returned records and the formatter's backend     *)
(* call failed or gave no text, the answer is what the fallback renderer   *)
(* makes of those records, and the outcome is success = true with          *)
(* error = None.                                                           *)
(***************************************************************************)
C9_FormatterFailureFallsBack ==
    \A i \in 1..Len(calls) :
        (/\ calls[i].op = "format"
         /\ calls[i].ok
         /\ calls[i].kind \in ErrorKinds \cup {"nochoice"} \/ Falsy(calls[i].text))
        => /\ Returned
           /\ outcome.success
           /\ outcome.error = None
           /\ outcome.results = Rows(calls[i].rows)
           /\ outcome.answer = format_results_simple(calls[i].rows)
           /\ NumCalls("fallback") = 1

\* the backend request of the formatter raised, on two records
C9_Witness ==
    \E i \in 1..Len(calls) :
        /\ calls[i].op = "format"
        /\ calls[i].kind = "timeout"
        /\ Len(calls[i].rows) = 2

(***************************************************************************)
(* C10.  An error raised by the executor ends the invocation as a failure  *)
(* (success = false, results = None) and is not retried: execute_query is  *)
(* called at most once per invocation and no call follows the one that     *)
(* raised.                                                                 *)
(***************************************************************************)
C10_ExecuteErrorIsTerminal ==
    /\ NumCalls("execute") <= 1
    /\ \A i \in 1..Len(calls) :
        (calls[i].op = "execute" /\ ~calls[i].ok)
        => /\ i = Len(calls)
           /\ Returned
           /\ ~outcome.success
           /\ outcome.results = NoneRows
           /\ outcome.error = calls[i].text

C10_Witness ==
    /\ Returned
    /\ calls # <<>>
    /\ calls[Len(calls)].op = "execute"
    /\ ~calls[Len(calls)].ok

(***************************************************************************)
(* C11.  query() never lets an exception through to its caller: every      *)
(* failure is returned as a dictionary with success = false and an error   *)
(* that is not None, and a collaborator that raised (generate_cypher,      *)
(* execute_query, format_results) ends the invocation with exactly that    *)
(* exception's text as the error.                                          *)
(***************************************************************************)
C11_QueryNeverPropagates ==
    /\ pc # "propagated"
    /\ (Returned /\ ~outcome.success) => outcome.error # None
    /\ \A i \in 1..Len(calls) :
        (calls[i].op \in {"generate", "execute", "format"} /\ ~calls[i].ok)
        => /\ Returned
           /\ ~outcome.success
           /\ outcome.error = calls[i].text

\* the translator raised and the invocation returned the failure
C11_Witness ==
    /\ Returned
    /\ calls # <<>>
    /\ calls[Len(calls)].op = "generate"
    /\ ~calls[Len(calls)].ok
    /\ outcome.error = GenerateRaised

(***************************************************************************)
(* C12.  Every outcome with success = false carries the same fixed neutral *)
(* answer phrase, whatever the cause (store not connected, generation      *)
(* failure, validation rejection, execution error), and that answer never  *)
(* contains the diagnostic text of the error field.  query() answers a     *)
(* disconnected engine with a different sentence, one that names the       *)
(* database and says it is not connected.                                  *)
(***************************************************************************)
C12_OneNeutralFailurePhrase ==
    (Returned /\ ~outcome.success)
    => /\ outcome.answer = FailAnswer
       /\ ~Contains(outcome.answer, outcome.error)

(***************************************************************************)
(* C13.  Neo4jClient.validate_query never raises.  A rejection by the      *)
(* store, a transport or connection error, and a client with no open       *)
(* driver all give (False, <the error's text>); the result is (True, None) *)
(* exactly when the EXPLAIN run raised nothing.                            *)
(***************************************************************************)
C13_ValidateNeverRaises ==
    \A i \in 1..Len(calls) :
        (calls[i].op = "validate" /\ calls[i].kind \in {"nodriver", "no", "syntax", "other"})
        => /\ pc # "propagated"
           /\ calls[i].ok <=> calls[i].kind = "no"
           /\ calls[i].ok => calls[i].text = None
           /\ calls[i].kind = "nodriver" => calls[i].text = NoDriverText
           /\ calls[i].kind = "syntax" => calls[i].text = SyntaxErrorText
           /\ calls[i].kind = "other" => calls[i].text = TransportErrorText

\* validate_query was called on a client that never opened a driver
C13_Witness ==
    /\ driver = "none"
    /\ calls # <<>>
    /\ calls[1].op = "validate"
    /\ calls[1].kind = "nodriver"
    /\ ~calls[1].ok

(***************************************************************************)
(* C14.  For both backends generate_cypher never lets an exception through *)
(* to its caller: a timeout, a transport failure and a malformed response  *)
(* (one of another shape, or one whose content is null) are caught and the *)
(* call returns None.                                                      *)
(***************************************************************************)
C14_GenerateCypherNeverRaises ==
    \A i \in 1..Len(calls) :
        calls[i].op = "generate_cypher"
        => /\ pc # "propagated"
           /\ calls[i].ok
           /\ calls[i].text # Raised
           /\ (calls[i].kind \in ErrorKinds \/ calls[i].arg = None)
              => calls[i].text = None

\* the OpenRouter backend answered with a null content
C14_Witness ==
    /\ provider = "openrouter"
    /\ calls # <<>>
    /\ calls[1].op = "generate_cypher"
    /\ calls[1].kind = "text"
    /\ calls[1].arg = None

(***************************************************************************)
(* C15.  For both backends a return of generate_cypher other than None is  *)
(* a non-empty text with no code fence in it and no whitespace around it,  *)
(* and a response whose text is empty, or is empty once fences and         *)
(* surrounding whitespace are removed, gives None.  Both clients return    *)
(* the empty string for a reply made of fences alone, and the OpenRouter   *)
(* client also for an empty or blank content.                              *)
(***************************************************************************)
C15_GeneratedQueryIsNonEmptyOrNone ==
    \A i \in 1..Len(calls) :
        (calls[i].op = "generate_cypher" /\ calls[i].ok)
        => /\ calls[i].text # None
              => /\ calls[i].text # <<>>
                 /\ RemoveFences(calls[i].text) = calls[i].text
                 /\ Strip(calls[i].text) = calls[i].text
           /\ (/\ calls[i].kind = "text"
               /\ calls[i].arg # None
               /\ Strip(RemoveFences(calls[i].arg)) = <<>>)
              => calls[i].text = None

(***************************************************************************)
(* C16.  _format_results_simple on exactly one record of exactly one field *)
(* returns "Result: " followed by the value as str() renders it, whatever  *)
(* the field's name and whatever the value (a mapping and null included).  *)
(***************************************************************************)
C16_SingleValueResult ==
    \A i \in 1..Len(calls) :
        (/\ calls[i].op = "_format_results_simple"
         /\ Len(calls[i].rows) = 1
         /\ Len(calls[i].rows[1]) = 1)
        => calls[i].text = <<"Result: ">> \o StrValue(calls[i].rows[1][1].v)

\* the single value is a mapping that has a name
C16_Witness ==
    /\ calls # <<>>
    /\ calls[1].op = "_format_results_simple"
    /\ calls[1].rows = <<<<Field("c", Mapping("latte", "Latte", Absent))>>>>
    /\ calls[1].text = <<"Result: ", "{", "'code': ", "latte", ", ", "'name': ", "Latte", "}">>

\* the number of line breaks in text t
LineBreaks(t) == Len(SelectSeq(t, LAMBDA x : x = "\n"))

\* lines 1..k of the numbered rendering of records rs
RECURSIVE NumberedLines(_, _)
NumberedLines(rs, k) ==
    IF k = 0 THEN <<>>
    ELSE NumberedLines(rs, k - 1)
            \o (IF k > 1 THEN <<"\n">> ELSE <<>>)
            \o <<ToString(k), ". ">> \o format_record(rs[k])

(***************************************************************************)
(* C17.  _format_results_simple on k > 1 records returns exactly k lines,  *)
(* in the order of the input, line i being "i. " followed by the rendering *)
(* of record i; on one record of more than one field it returns that       *)
(* record's rendering with no index in front.                              *)
(***************************************************************************)
C17_NumberedLines ==
    \A i \in 1..Len(calls) :
        calls[i].op = "_format_results_simple"
        => /\ Len(calls[i].rows) > 1
              => /\ LineBreaks(calls[i].text) = Len(calls[i].rows) - 1
                 /\ calls[i].text = NumberedLines(calls[i].rows, Len(calls[i].rows))
           /\ (Len(calls[i].rows) = 1 /\ Len(calls[i].rows[1]) > 1)
              => calls[i].text = format_record(calls[i].rows[1])

\* two records were rendered, the second one of two fields
C17_Witness ==
    /\ calls # <<>>
    /\ calls[1].op = "_format_results_simple"
    /\ Len(calls[1].rows) = 2
    /\ Len(calls[1].rows[2]) = 2
    /\ Head(calls[1].text) = "1"

(***************************************************************************)
(* C18, as the specification states it.  The rendering of a record has one *)
(* "<field>: <value>" part for every field of the record, null-valued      *)
(* fields included.  _format_record appends nothing for a null value.      *)
(***************************************************************************)
C18_EveryFieldRendered ==
    \A i \in 1..Len(calls) :
        calls[i].op = "_format_record"
        => \A j \in 1..Len(calls[i].rows[1]) :
               Contains(calls[i].text, <<calls[i].rows[1][j].f, ": ">>)

\* the fields of a record that hold a value other than null, in order
NonNullFields(record) == SelectSeq(record, LAMBDA fld : fld.v.k # "null")

(***************************************************************************)
(* C18, amended.  The rendering of a record has one "<field>: <value>"     *)
(* part for every field whose value is not null, in the record's field     *)
(* order and joined by ", "; a null-valued field is left out; a record     *)
(* with no field other than null ones is rendered as str(record).          *)
(***************************************************************************)
C18_NonNullFieldsRendered ==
    \A i \in 1..Len(calls) :
        calls[i].op = "_format_record"
        => LET record == calls[i].rows[1]
               kept == NonNullFields(record)
           IN  IF kept = <<>>
               THEN calls[i].text = StrRecord(record)
               ELSE /\ calls[i].text =
                         Join([j \in 1..Len(kept) |-> format_record_part(kept[j])], <<", ">>)
                    /\ \A j \in 1..Len(kept) :
                         SubSeq(format_record_part(kept[j]), 1, 2) = <<kept[j].f, ": ">>
                    /\ \A j \in 1..Len(record) :
                         record[j].v.k = "null"
                         => ~Contains(calls[i].text, <<record[j].f, ": ">>)

\* a record whose first field is null and whose second is not
C18_Witness ==
    /\ calls # <<>>
    /\ calls[1].op = "_format_record"
    /\ calls[1].rows[1] = <<Field("name", Null), Field("c", Scalar("Espresso"))>>
    /\ calls[1].text = <<"c", ": ", "Espresso">>

(***************************************************************************)
(* C19.  In the rendering of a record a field whose value is a mapping is  *)
(* shown as the mapping's name when it has one, even if it also has a      *)
(* description; else as its description when it has one; else as the whole *)
(* mapping stringified.                                                    *)
(***************************************************************************)
C19_MappingShownByName ==
    \A i \in 1..Len(calls) :
        calls[i].op = "_format_record"
        => \A j \in 1..Len(calls[i].rows[1]) :
             LET fld == calls[i].rows[1][j]
                 text == calls[i].text
             IN  fld.v.k = "map"
                 => /\ fld.v.name # Absent
                       => /\ Contains(text, <<fld.f, ": ", fld.v.name>>)
                          /\ ~Contains(text, <<fld.v.desc>>)
                          /\ ~Contains(text, StrMapping(fld.v))
                    /\ (fld.v.name = Absent /\ fld.v.desc # Absent)
                       => /\ Contains(text, <<fld.f, ": ", fld.v.desc>>)
                          /\ ~Contains(text, StrMapping(fld.v))
                    /\ (fld.v.name = Absent /\ fld.v.desc = Absent)
                       => Contains(text, <<fld.f, ": ">> \o StrMapping(fld.v))

\* a mapping with both a name and a description was rendered by its name
C19_Witness ==
    /\ calls # <<>>
    /\ calls[1].op = "_format_record"
    /\ calls[1].rows[1] =
         <<Field("c", Mapping("latte", "Latte", "Espresso with steamed milk"))>>
    /\ calls[1].text = <<"c", ": ", "Latte">>

(***************************************************************************)
(* C20.  Two runs of query() with the same question, in the same           *)
(* connection state, whose collaborators give the same responses in the    *)
(* same order, return outcomes with equal success, cypher and answer; the  *)
(* second run makes the calls the first made, in the same order, and       *)
(* nothing the first run left behind changes it.                           *)
(***************************************************************************)
C20_RerunGivesSameOutcome ==
    replay.on
    => /\ pc # "propagated"
       /\ Len(calls) <= Len(replay.calls)
       /\ calls = SubSeq(replay.calls, 1, Len(calls))
       /\ pc \in {"generate", "validate", "execute", "format"}
          => /\ Len(calls) < Len(replay.calls)
             /\ replay.calls[Len(calls) + 1].op = pc
       /\ pc = "done"
          => /\ calls = replay.calls
             /\ outcome.success = replay.outcome.success
             /\ outcome.cypher = replay.outcome.cypher
             /\ outcome.answer = replay.outcome.answer

\* the second run of an invocation whose executor raised has returned
C20_Witness ==
    /\ replay.on
    /\ pc = "done"
    /\ Len(replay.calls) = 3
    /\ replay.calls[3].op = "execute"
    /\ ~replay.calls[3].ok
    /\ ~outcome.success

\* connect() or disconnect() was the last method called on the engine
AfterLifecycleCall == pc = "idle" /\ calls # <<>>

\* what holds in every state for C21
C21_FlagState ==
    /\ AfterLifecycleCall
       => (connected <=> (calls[1].op = "connect" /\ calls[1].kind = "ok"))
    /\ (Returned /\ ~connected)
       => /\ calls = <<>>
          /\ ~outcome.success
          /\ outcome.cypher = None
          /\ outcome.results = NoneRows
          /\ outcome.error # None
    /\ ~connected => pc \in {"idle", "done"}

(***************************************************************************)
(* C21.  While self.connected is false (connect() never called, the last   *)
(* connect() failed, or disconnect() was called since) query() returns a   *)
(* failure with cypher = None and results = None and calls none of         *)
(* generate_cypher, validate_query, execute_query, format_results.  The    *)
(* flag is true exactly when the most recent connect() succeeded and no    *)
(* disconnect() followed: connect() and disconnect() set it so, and no     *)
(* step of query() changes it.                                             *)
(***************************************************************************)
C21_DisconnectedEngineAnswersNothing ==
    /\ []C21_FlagState
    /\ [][pc' # "idle" => connected' = connected]_vars

\* query() returned on an engine that was connected and then disconnected
C21_Witness ==
    /\ Returned
    /\ ~connected
    /\ driver = "closed"
    /\ outcome = NotConnectedOutcome(question)
    /\ question # ""

(***************************************************************************)
(* C22.  execute_query sends a query to the store only on a live           *)
(* connection: whenever the client's last connect() failed or was never    *)
(* made, or close() was called since, it raises the ConnectionError "Not   *)
(* connected to Neo4j. Call connect() first." and sends nothing.           *)
(* execute_query tests only whether _driver is set, and _driver stays set  *)
(* after a connect() whose verify_connectivity failed and after close().   *)
(***************************************************************************)
C22_ExecuteOnlyOnLiveConnection ==
    (/\ calls # <<>>
     /\ calls[1].op = "execute"
     /\ driver # "live")
    => /\ pc = "propagated"
       /\ ~calls[1].ok
       /\ calls[1].text = NotConnectedText
       /\ calls[1].kind = "nodriver"

\* what holds of the session history in every state
C23_HistoryState ==
    /\ Len(web.history) <= HistoryLimit
    /\ \A i \in 1..Len(web.history) :
        /\ web.history[i].timestamp = web.history[1].timestamp + i - 1
        /\ ~Falsy(web.history[i].question)
        /\ Strip(web.history[i].question) = web.history[i].question
    /\ web.history # <<>> => web.history[Len(web.history)].timestamp = web.clock
    /\ (web.request = "query" /\ web.status = 400) => ~web.invoked
    /\ web.request = "clear-history" => web.history = <<>>

\* what holds of every request
C23_HistoryStep ==
    /\ (web'.request = "query" /\ web'.status = 400)
       => /\ web'.history = web.history
          /\ web'.created = web.created
          /\ web'.clock = web.clock
    /\ web'.clock # web.clock
       => /\ web'.request = "query" /\ web'.status = 200 /\ web'.invoked
          /\ web'.clock = web.clock + 1
          /\ Len(web'.history) =
               IF Len(web.history) < HistoryLimit THEN Len(web.history) + 1
               ELSE HistoryLimit
    /\ web'.request = "history" => web'.history = web.history

(***************************************************************************)
(* C23.  After any sequence of /query, /history and /clear-history         *)
(* requests in one session the history holds at most 20 entries: the most  *)
(* recent non-blank questions that were answered, in request order, oldest *)
(* first, none missing in between.  A /query whose question is blank after *)
(* trimming gets status 400, leaves the history as it was and calls        *)
(* neither get_rag_engine nor rag.query.  /clear-history leaves the        *)
(* history empty.                                                          *)
(***************************************************************************)
C23_HistoryKeepsLastTwenty ==
    /\ []C23_HistoryState
    /\ [][C23_HistoryStep]_vars

\* the twenty-first question of a session pushed the first one out
C23_Witness ==
    /\ Len(web.history) = HistoryLimit
    /\ web.history[1].timestamp = 2
    /\ web.clock = HistoryLimit + 1
    /\ web.request = "query"
    /\ web.status = 200

(***************************************************************************)
(* C24.  Whatever the interleaving of the handlers calling get_rag_engine, *)
(* at most one RAGEngine is constructed and connected in the process and   *)
(* every handler is returned that one instance.  Two handlers that both    *)
(* find the global None each construct an engine; the second assignment    *)
(* replaces the first, whose connection is never closed.                   *)
(***************************************************************************)
C24_OneEngineForAllHandlers ==
    /\ web.created <= 1
    /\ Cardinality(web.connects) <= 1
    /\ \A g, h \in Handlers :
        (HandlerAt(g, "done") /\ HandlerAt(h, "done")) => web.got[g] = web.got[h]

====
